---- MODULE Spec2Model ----
(***************************************************************************)
(* py-caskdb: a log-structured key-value store (src/disk_store.py) and its *)
(* record codec (src/format.py).                                           *)
(*                                                                         *)
(* A text (Python str) is a sequence of code points, a bytes object is a   *)
(* sequence of numbers 0..255.  The file on disk is a sequence of bytes.   *)
(* Code points are below 2048, so UTF-8 uses its one- and two-byte forms;  *)
(* surrogate code points are the texts that UTF-8 refuses to encode.       *)
(* struct's native byte order is taken as little-endian (the one host the  *)
(* file is written and read on).                                           *)
(***************************************************************************)
EXTENDS Integers, Sequences, FiniteSets, TLC

VARIABLES
    exists,     \* whether the file exists at the path
    file,       \* the bytes of the file at the path
    engine,     \* "none" (no DiskStorage object), "open", "closed" (file_store closed),
                \* "failed" (the constructor raised: no object)
    key_dir,    \* DiskStorage.key_dir: text -> offset
    pos,        \* position of file_store
    last,       \* the last call on the engine and how it ended
    hist,       \* history: the set calls that returned, in order (at: where
                \* file_store stood when the call was made)
    base,       \* history: Len(hist) when the current object was constructed
    cut,        \* history: length the file was truncated to out-of-band (-1: never)
    codec,      \* the codec calls of the codec specification
    origin,     \* history: the pieces a file found at the path was made of
    calls,      \* the set call each thread is in, on the one shared engine
    overlap,    \* history: a set call began while another was in progress
    insts,      \* the DiskStorage objects constructed on the one path
    runs        \* two runs of one sequence of calls

\* the variables only the scenario specifications below change
aux == <<origin, calls, overlap, insts, runs>>

vars == <<exists, file, engine, key_dir, pos, last, hist, base, cut, codec, aux>>

(***************************************************************************)
(* Bounds and input sets                                                   *)
(***************************************************************************)
MaxSets == 2

MaxTextLen == 2

\* "a", "é", "éa": one-byte and two-byte characters
Keys == {<<97>>, <<233>>, <<233, 97>>}

\* "", "b", "éb"
Values == {<<>>, <<98>>, <<233, 98>>}

\* int(time.time()) at the moment of a set
Timestamps == {1, 2}

CodecAlphabet == {97, 233}

RECURSIVE TextsUpTo(_)
TextsUpTo(n) ==
    IF n = 0 THEN {<<>>}
    ELSE TextsUpTo(n - 1) \cup
         {Append(s, c) : s \in {t \in TextsUpTo(n - 1) : Len(t) = n - 1}, c \in CodecAlphabet}

CodecTexts == TextsUpTo(MaxTextLen)

(***************************************************************************)
(* bytes helpers                                                           *)
(***************************************************************************)
Min(a, b) == IF a < b THEN a ELSE b

\* b[:n]
Take(b, n) == SubSeq(b, 1, Min(n, Len(b)))

\* b[n:]
Drop(b, n) == SubSeq(b, Min(n, Len(b)) + 1, Len(b))

\* file_store.read(n) at position p: the bytes there are, at most n
FileRead(f, p, n) == SubSeq(f, p + 1, Min(p + n, Len(f)))

\* struct "I": an unsigned 32-bit integer in 4 bytes
PackI(n) == <<n % 256, (n \div 256) % 256, (n \div 65536) % 256, (n \div 16777216) % 256>>

\* the reverse.  Python's integers do not overflow; a top byte above 31 is read
\* as 31, which keeps every such size above 2^28, far beyond the length of any
\* file here, so every comparison and every read comes out as in the code
UnpackI(b) == b[1] + 256 * b[2] + 65536 * b[3] + 16777216 * Min(b[4], 31)

\* struct "<n>s": exactly n bytes, b cut to n or padded with zero bytes
PackS(n, b) == [i \in 1..n |-> IF i <= Len(b) THEN b[i] ELSE 0]

\* str.encode(): UTF-8
EncodeChar(c) == IF c < 128 THEN <<c>> ELSE <<192 + (c \div 64), 128 + (c % 64)>>

\* str.encode() raises UnicodeEncodeError ("surrogates not allowed") on a text
\* that holds a code point of the surrogate range
Surrogate(c) == c >= 55296 /\ c <= 57343

Encodable(s) == \A i \in 1..Len(s) : ~Surrogate(s[i])

RECURSIVE StrEncode(_)
StrEncode(s) == IF s = <<>> THEN <<>> ELSE EncodeChar(Head(s)) \o StrEncode(Tail(s))

\* bytes.decode(): UTF-8, strict; ok = FALSE is UnicodeDecodeError
RECURSIVE BytesDecode(_)
BytesDecode(b) ==
    IF b = <<>> THEN [ok |-> TRUE, str |-> <<>>]
    ELSE IF b[1] < 128
    THEN LET r == BytesDecode(Tail(b))
         IN  [ok |-> r.ok, str |-> <<b[1]>> \o r.str]
    ELSE IF b[1] >= 194 /\ b[1] <= 223 /\ Len(b) >= 2 /\ b[2] >= 128 /\ b[2] <= 191
    THEN LET r == BytesDecode(Drop(b, 2))
         IN  [ok |-> r.ok, str |-> <<(b[1] - 192) * 64 + (b[2] - 128)>> \o r.str]
    ELSE [ok |-> FALSE, str |-> <<>>]

(***************************************************************************)
(* src/format.py                                                           *)
(***************************************************************************)
HEADER_SIZE == 12

encode_header(timestamp, key_size, value_size) ==
    PackI(timestamp) \o PackI(key_size) \o PackI(value_size)

\* the pair (length, bytes)
encode_kv(timestamp, key, value) ==
    LET record_in_bin == PackS(Len(key), StrEncode(key)) \o PackS(Len(value), StrEncode(value))
        header == encode_header(timestamp, Len(key), Len(value))
        record_with_header == header \o record_in_bin
    IN  <<Len(record_with_header), record_with_header>>

\* struct.unpack("III", data) wants exactly 12 bytes
decode_header(data) ==
    IF Len(data) # 12
    THEN [err |-> "struct.error", timestamp |-> 0, key_size |-> 0, value_size |-> 0]
    ELSE [err |-> "none",
          timestamp |-> UnpackI(SubSeq(data, 1, 4)),
          key_size |-> UnpackI(SubSeq(data, 5, 8)),
          value_size |-> UnpackI(SubSeq(data, 9, 12))]

DecodeFailed(e) == [err |-> e, timestamp |-> 0, key |-> <<>>, value |-> <<>>]

decode_kv(data) ==
    LET h == decode_header(Take(data, HEADER_SIZE))
        body == Drop(data, HEADER_SIZE)
    IN  IF h.err # "none" THEN DecodeFailed(h.err)
        ELSE IF Len(body) # h.key_size + h.value_size THEN DecodeFailed("struct.error")
        ELSE LET k == BytesDecode(SubSeq(body, 1, h.key_size))
                 v == BytesDecode(SubSeq(body, h.key_size + 1, h.key_size + h.value_size))
             IN  IF ~k.ok \/ ~v.ok THEN DecodeFailed("UnicodeDecodeError")
                 ELSE [err |-> "none", timestamp |-> h.timestamp, key |-> k.str, value |-> v.str]

(***************************************************************************)
(* src/disk_store.py                                                       *)
(***************************************************************************)
EmptyDir == <<>>

\* an assignment that leaves the entry of a key that is already there
DictSetKeepsOld(d, k, o) == d @@ (k :> o)

\* dict assignment d[k] = o
DictSet(d, k, o) == (k :> o) @@ d

\* what a call returned: out is "return" or the exception raised; ret is the
\* text returned by get (None, the result of set, close and the constructor,
\* is written as the empty text and is never read)
Outcome(op, key, out, ret) == [op |-> op, key |-> key, out |-> out, ret |-> ret]

\* get's result for a key that is not in key_dir
NotFound == <<>>

\* the element of a one-element set: a name bound this way holds a value that is
\* computed once, where a LET name is computed again at each use inside ENABLED
The(S) == CHOOSE x \in S : TRUE

\* an iteration that keeps the first offset seen for a key
ScanIterationFirstWins(f, current_file_pointer, kd) ==
    The({ The({ The({ The({
        IF h.err # "none"
        THEN [err |-> h.err, key_dir |-> kd, pos |-> current_file_pointer + Len(header_b)]
        ELSE IF d.err # "none"
        THEN [err |-> d.err, key_dir |-> kd,
              pos |-> current_file_pointer + HEADER_SIZE + Len(kv_data_b)]
        ELSE [err |-> "none",
              key_dir |-> IF d.key \in DOMAIN kd THEN kd
                          ELSE DictSet(kd, d.key, current_file_pointer),
              pos |-> current_file_pointer + HEADER_SIZE + h.key_size + h.value_size]
      : d \in {decode_kv(header_b \o kv_data_b)} })
      : kv_data_b \in {FileRead(f, current_file_pointer + HEADER_SIZE,
                                h.key_size + h.value_size)} })
      : h \in {decode_header(header_b)} })
      : header_b \in {FileRead(f, current_file_pointer, HEADER_SIZE)} })

\* an iteration that lets the record with the greater timestamp win
ScanIterationNewestWins(f, current_file_pointer, kd) ==
    The({ The({ The({ The({
        IF h.err # "none"
        THEN [err |-> h.err, key_dir |-> kd, pos |-> current_file_pointer + Len(header_b)]
        ELSE IF d.err # "none"
        THEN [err |-> d.err, key_dir |-> kd,
              pos |-> current_file_pointer + HEADER_SIZE + Len(kv_data_b)]
        ELSE [err |-> "none",
              key_dir |-> IF /\ d.key \in DOMAIN kd
                             /\ decode_header(FileRead(f, kd[d.key], HEADER_SIZE)).timestamp
                                    > d.timestamp
                          THEN kd
                          ELSE DictSet(kd, d.key, current_file_pointer),
              pos |-> current_file_pointer + HEADER_SIZE + h.key_size + h.value_size]
      : d \in {decode_kv(header_b \o kv_data_b)} })
      : kv_data_b \in {FileRead(f, current_file_pointer + HEADER_SIZE,
                                h.key_size + h.value_size)} })
      : h \in {decode_header(header_b)} })
      : header_b \in {FileRead(f, current_file_pointer, HEADER_SIZE)} })

\* an iteration that advances the cursor by the body's length alone
ScanIterationNoHeader(f, current_file_pointer, kd) ==
    The({ The({ The({ The({
        IF h.err # "none"
        THEN [err |-> h.err, key_dir |-> kd, pos |-> current_file_pointer + Len(header_b)]
        ELSE IF d.err # "none"
        THEN [err |-> d.err, key_dir |-> kd,
              pos |-> current_file_pointer + HEADER_SIZE + Len(kv_data_b)]
        ELSE [err |-> "none",
              key_dir |-> DictSet(kd, d.key, current_file_pointer),
              pos |-> current_file_pointer + h.key_size + h.value_size]
      : d \in {decode_kv(header_b \o kv_data_b)} })
      : kv_data_b \in {FileRead(f, current_file_pointer + HEADER_SIZE,
                                h.key_size + h.value_size)} })
      : h \in {decode_header(header_b)} })
      : header_b \in {FileRead(f, current_file_pointer, HEADER_SIZE)} })

\* one iteration of the while loop of __init_db, at current_file_pointer: the
\* header read, its decoding, the body read, the record's decoding (read from
\* the innermost binding outwards), then the index entry and the new cursor
ScanIteration(f, current_file_pointer, kd) ==
    The({ The({ The({ The({
        IF h.err # "none"
        THEN [err |-> h.err, key_dir |-> kd, pos |-> current_file_pointer + Len(header_b)]
        ELSE IF d.err # "none"
        THEN [err |-> d.err, key_dir |-> kd,
              pos |-> current_file_pointer + HEADER_SIZE + Len(kv_data_b)]
        ELSE [err |-> "none",
              key_dir |-> DictSet(kd, d.key, current_file_pointer),
              pos |-> current_file_pointer + HEADER_SIZE + h.key_size + h.value_size]
      : d \in {decode_kv(header_b \o kv_data_b)} })
      : kv_data_b \in {FileRead(f, current_file_pointer + HEADER_SIZE,
                                h.key_size + h.value_size)} })
      : h \in {decode_header(header_b)} })
      : header_b \in {FileRead(f, current_file_pointer, HEADER_SIZE)} })

\* the while loop of __init_db from current_file_pointer on
RECURSIVE ScanLoop(_, _, _)
ScanLoop(f, current_file_pointer, kd) ==
    IF ~(current_file_pointer < Len(f))
    THEN [err |-> "none", key_dir |-> kd, pos |-> current_file_pointer]
    ELSE LET r == ScanIteration(f, current_file_pointer, kd)
         IN  IF r.err # "none" THEN r ELSE ScanLoop(f, r.pos, r.key_dir)

\* __init_db on a new object whose file holds f
InitDb(f) ==
    LET total_file_size == Len(f)
    IN  IF total_file_size < 10
        THEN [err |-> "none", key_dir |-> EmptyDir, pos |-> total_file_size]
        ELSE ScanLoop(f, 0, EmptyDir)

\* DiskStorage(file_name): creates the file if absent, opens it, scans it.  An
\* exception of __init_db leaves the caller without an object.
Open ==
    /\ engine \in {"none", "closed", "failed"}
    /\ exists' = TRUE
    /\ LET r == InitDb(file)
       IN  IF r.err = "none"
           THEN /\ engine' = "open"
                /\ key_dir' = r.key_dir
                /\ pos' = r.pos
                /\ last' = Outcome("open", <<>>, "return", <<>>)
           ELSE /\ engine' = "failed"
                /\ key_dir' = EmptyDir
                /\ pos' = 0
                /\ last' = Outcome("open", <<>>, r.err, <<>>)
    /\ base' = Len(hist)
    /\ UNCHANGED <<file, hist, cut, codec, aux>>

\* file_store.write(data) at position p of a file that holds f
FileWrite(f, p, data) == Take(f, p) \o data \o Drop(f, p + Len(data))

\* a set that forgets seek(0, os.SEEK_END): tell() and write() at the position
\* the last call left
SetEffectNoSeek(f, p, kd, key, value, timestamp) ==
    LET encoded_data == encode_kv(timestamp, key, value)
    IN  [file |-> FileWrite(f, p, encoded_data[2]),
         pos |-> p + encoded_data[1],
         key_dir |-> DictSet(kd, key, p),
         offset |-> p]

\* the body of set on a file that holds f, file_store at position p, index kd:
\* seek to the end, tell, encode, write, store the offset
SetEffect(f, p, kd, key, value, timestamp) ==
    LET total_file_size_before_key_set == Len(f)
        encoded_data == encode_kv(timestamp, key, value)
    IN  [file |-> FileWrite(f, total_file_size_before_key_set, encoded_data[2]),
         pos |-> total_file_size_before_key_set + encoded_data[1],
         key_dir |-> DictSet(kd, key, total_file_size_before_key_set),
         offset |-> total_file_size_before_key_set]

\* set on an object whose file_store is open
SetOpen(key, value, timestamp) ==
    LET r == SetEffect(file, pos, key_dir, key, value, timestamp)
    IN  /\ file' = r.file
        /\ pos' = r.pos
        /\ key_dir' = r.key_dir
        /\ last' = Outcome("set", key, "return", <<>>)
        /\ hist' = Append(hist, [key |-> key, value |-> value, offset |-> r.offset,
                                 at |-> pos])
        /\ UNCHANGED <<exists, engine, base, cut, codec, aux>>

\* a failing set that stores the offset before it raises
SetFailEffectIndexed(f, p, kd, key) ==
    [file |-> f, pos |-> Len(f), key_dir |-> DictSet(kd, key, Len(f))]

\* the body of set when encode_kv raises: seek and tell have run, write and the
\* index assignment have not
SetFailEffect(f, p, kd, key) ==
    [file |-> f, pos |-> Len(f), key_dir |-> kd]

\* set with a key or a value that key.encode() / value.encode() rejects
SetRaises(key) ==
    LET r == SetFailEffect(file, pos, key_dir, key)
    IN  /\ file' = r.file
        /\ pos' = r.pos
        /\ key_dir' = r.key_dir
        /\ last' = Outcome("set", key, "UnicodeEncodeError", <<>>)
        /\ UNCHANGED <<exists, engine, hist, base, cut, codec, aux>>

\* set after close: file_store.seek raises ValueError
SetClosed(key) ==
    /\ last' = Outcome("set", key, "ValueError", <<>>)
    /\ UNCHANGED <<exists, file, engine, key_dir, pos, hist, base, cut, codec, aux>>

SetCall(key, value, timestamp) ==
    /\ engine \in {"open", "closed"}
    /\ IF engine = "closed" THEN SetClosed(key)
       ELSE IF Encodable(key) /\ Encodable(value) THEN SetOpen(key, value, timestamp)
       ELSE SetRaises(key)

Set(key, value, timestamp) ==
    /\ Len(hist) < MaxSets
    /\ SetCall(key, value, timestamp)

\* the reads of get at the offset key_dir gives, on a file that holds f
GetReadAt(f, offset_to_jump_to) ==
    LET header_b == FileRead(f, offset_to_jump_to, HEADER_SIZE)
        h == decode_header(header_b)
    IN  IF h.err # "none"
        THEN [out |-> h.err, ret |-> <<>>, pos |-> offset_to_jump_to + Len(header_b)]
        ELSE LET kv_data_b == FileRead(f, offset_to_jump_to + HEADER_SIZE,
                                       h.key_size + h.value_size)
                 d == decode_kv(header_b \o kv_data_b)
                 after == offset_to_jump_to + HEADER_SIZE + Len(kv_data_b)
             IN  IF d.err # "none"
                 THEN [out |-> d.err, ret |-> <<>>, pos |-> after]
                 ELSE [out |-> "return", ret |-> d.value, pos |-> after]

\* get for a key that is in key_dir, file_store open
GetRead(key) == GetReadAt(file, key_dir[key])

Get(key) ==
    /\ engine \in {"open", "closed"}
    /\ IF key \notin DOMAIN key_dir
       THEN /\ last' = Outcome("get", key, "return", NotFound)
            /\ pos' = pos
       ELSE IF engine = "closed"
       THEN /\ last' = Outcome("get", key, "ValueError", <<>>)
            /\ pos' = pos
       ELSE LET r == GetRead(key)
            IN  /\ last' = Outcome("get", key, r.out, r.ret)
                /\ pos' = r.pos
    /\ UNCHANGED <<exists, file, engine, key_dir, hist, base, cut, codec, aux>>

\* close: file_store.close(), which also returns on a closed file
Close ==
    /\ engine \in {"open", "closed"}
    /\ engine' = "closed"
    /\ last' = Outcome("close", <<>>, "return", <<>>)
    /\ UNCHANGED <<exists, file, key_dir, pos, hist, base, cut, codec, aux>>

CodecIdle == [pc |-> "idle"]

\* the threads that call set on the shared engine
Threads == {1, 2}

\* a thread that is in no call
IdleCall ==
    [pc |-> "idle", key |-> <<>>, value |-> <<>>, timestamp |-> 0, offset |-> 0, at |-> 0,
     whole |-> [file |-> <<>>, pos |-> 0, key_dir |-> EmptyDir, offset |-> 0]]

\* the objects constructed on the path
Instances == {1, 2}

\* no object yet.  pending is what file_store.write has put into the buffer of
\* the object's file_store and ppos where the file stood at that write: the
\* buffer reaches the file at the object's next seek or at its close.  wrote
\* is history: for each key set through the object, its last record
NoInst ==
    [engine |-> "none", key_dir |-> EmptyDir, pos |-> 0, ppos |-> 0, pending |-> <<>>,
     sets |-> 0, wrote |-> <<>>, last |-> Outcome("none", <<>>, "return", <<>>)]

\* a run before its first call
NoRun ==
    [engine |-> "none", file |-> <<>>, key_dir |-> EmptyDir, pos |-> 0, sets |-> 0,
     opens |-> 0, last |-> Outcome("none", <<>>, "return", <<>>)]

AuxInit ==
    /\ origin = <<>>
    /\ calls = [th \in Threads |-> IdleCall]
    /\ overlap = FALSE
    /\ insts = [i \in Instances |-> NoInst]
    /\ runs = [n \in {1, 2} |-> NoRun]

Init ==
    /\ exists = FALSE
    /\ file = <<>>
    /\ engine = "none"
    /\ key_dir = EmptyDir
    /\ pos = 0
    /\ last = Outcome("none", <<>>, "return", <<>>)
    /\ hist = <<>>
    /\ base = 0
    /\ cut = -1
    /\ codec = CodecIdle
    /\ AuxInit

Next ==
    \/ Open
    \/ \E k \in Keys, v \in Values, t \in Timestamps : Set(k, v, t)
    \/ \E k \in Keys : Get(k)
    \/ Close

Spec == Init /\ [][Next]_vars

(***************************************************************************)
(* Truncation of the closed file from outside (the corrupt-tail scenario): *)
(* a log written by set calls, which a scan accepts, is cut to n bytes, n  *)
(* strictly inside one of its records; then the path is opened again.      *)
(***************************************************************************)
RecordStarts == {hist[i].offset : i \in 1..Len(hist)}

Truncate(n) ==
    /\ engine = "closed"
    /\ cut = -1
    /\ Len(hist) >= 1
    /\ InitDb(file).err = "none"
    /\ n \in 1..(Len(file) - 1)
    /\ n \notin RecordStarts
    /\ file' = Take(file, n)
    /\ cut' = n
    /\ UNCHANGED <<exists, engine, key_dir, pos, last, hist, base, codec, aux>>

NextTrunc ==
    \/ cut = -1 /\ Next
    \/ \E n \in 1..(Len(file) - 1) : Truncate(n)
    \/ cut # -1 /\ engine = "closed" /\ Open

SpecTrunc == Init /\ [][NextTrunc]_vars

(***************************************************************************)
(* Longer logs over fewer inputs: three and more set calls, so that a get  *)
(* of an older record leaves file_store before the end of the file when    *)
(* the next set is made.                                                   *)
(***************************************************************************)
MaxLogSets == 3

\* "a", "éa"
LogKeys == {<<97>>, <<233, 97>>}

\* "b", "éb"
LogValues == {<<98>>, <<233, 98>>}

SetLog(key, value, timestamp) ==
    /\ Len(hist) < MaxLogSets
    /\ SetCall(key, value, timestamp)

NextLog ==
    \/ Open
    \/ \E k \in LogKeys, v \in LogValues, t \in Timestamps : SetLog(k, v, t)
    \/ \E k \in LogKeys : Get(k)
    \/ Close

SpecLog == Init /\ [][NextLog]_vars

(***************************************************************************)
(* The calls of Spec on the keys and values of the log above.              *)
(***************************************************************************)
NextGet ==
    \/ Open
    \/ \E k \in LogKeys, v \in LogValues, t \in Timestamps : Set(k, v, t)
    \/ \E k \in LogKeys : Get(k)
    \/ Close

SpecGet == Init /\ [][NextGet]_vars

(***************************************************************************)
(* Calls of set with texts that cannot be encoded: "\ud800" as a key,      *)
(* "\udc00" as a value, next to "a", "c" and "b".                          *)
(***************************************************************************)
EncKeys == {<<97>>, <<99>>, <<55296>>}

EncValues == {<<98>>, <<56320>>}

NextEnc ==
    \/ Open
    \/ \E k \in EncKeys, v \in EncValues, t \in Timestamps : Set(k, v, t)
    \/ \E k \in EncKeys : Get(k)
    \/ Close

SpecEnc == Init /\ [][NextEnc]_vars

(***************************************************************************)
(* The codec on its own: encode_kv of an input, then decode_kv of the      *)
(* bytes it returned.                                                      *)
(***************************************************************************)
CodecInput(t, k, v) ==
    [pc |-> "input", timestamp |-> t, key |-> k, value |-> v,
     encoded |-> <<0, <<>>>>, decoded |-> DecodeFailed("none")]

CodecEncode ==
    /\ codec.pc = "input"
    /\ codec' = [codec EXCEPT !.pc = "encoded",
                              !.encoded = encode_kv(codec.timestamp, codec.key, codec.value)]
    /\ UNCHANGED <<exists, file, engine, key_dir, pos, last, hist, base, cut, aux>>

CodecDecode ==
    /\ codec.pc = "encoded"
    /\ codec' = [codec EXCEPT !.pc = "decoded", !.decoded = decode_kv(codec.encoded[2])]
    /\ UNCHANGED <<exists, file, engine, key_dir, pos, last, hist, base, cut, aux>>

InitCodec ==
    /\ exists = FALSE
    /\ file = <<>>
    /\ engine = "none"
    /\ key_dir = EmptyDir
    /\ pos = 0
    /\ last = Outcome("none", <<>>, "return", <<>>)
    /\ hist = <<>>
    /\ base = 0
    /\ cut = -1
    /\ codec \in {CodecInput(t, k, v) : t \in Timestamps, k \in CodecTexts, v \in CodecTexts}
    /\ AuxInit

NextCodec == CodecEncode \/ CodecDecode

SpecCodec == InitCodec /\ [][NextCodec]_vars

(***************************************************************************)
(* Opening a file found at the path.  The file is a run of pieces, cut to  *)
(* any length: records in the documented layout (sizes in bytes, UTF-8     *)
(* bodies, the empty record with both sizes zero among them), a record as  *)
(* encode_kv writes it for a key with a two-byte character, and a header   *)
(* that declares more body bytes than follow it.  __init_db runs one loop  *)
(* iteration per step; while it runs the constructor has not returned      *)
(* (engine = "scanning") and key_dir is the index built so far.            *)
(***************************************************************************)
MaxPieces == 2

\* "", "a", "é"
PieceKeys == {<<>>, <<97>>, <<233>>}

\* "", "éb"
PieceValues == {<<>>, <<233, 98>>}

\* a record in the layout header || key_bytes || value_bytes, sizes in bytes
WellFormed(t, k, v) ==
    [wf |-> TRUE, key |-> k,
     bytes |-> encode_header(t, Len(StrEncode(k)), Len(StrEncode(v)))
                   \o StrEncode(k) \o StrEncode(v)]

\* header with key_size = 0 and value_size = 0, no body
ZeroRecord == WellFormed(1, <<>>, <<>>)

\* header that declares key_size = 3, value_size = 2, followed by one byte
Oversized == [wf |-> FALSE, key |-> <<>>, bytes |-> encode_header(1, 3, 2) \o <<97>>]

\* what set("é", "") appends
CutText == [wf |-> FALSE, key |-> <<233>>, bytes |-> encode_kv(1, <<233>>, <<>>)[2]]

Pieces ==
    {WellFormed(1, k, v) : k \in PieceKeys, v \in PieceValues} \cup {Oversized, CutText}

RECURSIVE PieceSeqs(_)
PieceSeqs(n) ==
    IF n = 0 THEN {<<>>}
    ELSE PieceSeqs(n - 1) \cup
         {Append(q, x) : q \in {r \in PieceSeqs(n - 1) : Len(r) = n - 1}, x \in Pieces}

RECURSIVE Concat(_)
Concat(q) == IF q = <<>> THEN <<>> ELSE Head(q).bytes \o Concat(Tail(q))

\* no engine yet and nothing at the path
InitFiles ==
    /\ exists = FALSE
    /\ AuxInit
    /\ file = <<>>
    /\ cut = -1
    /\ engine = "none"
    /\ key_dir = EmptyDir
    /\ pos = 0
    /\ last = Outcome("none", <<>>, "return", <<>>)
    /\ hist = <<>>
    /\ base = 0
    /\ codec = CodecIdle

\* a file is found at the path before the first open: a run of pieces, whole or
\* cut at any byte
PutFile ==
    /\ ~exists
    /\ engine = "none"
    /\ exists' = TRUE
    /\ origin' \in PieceSeqs(MaxPieces)
    /\ \E n \in 0..Len(Concat(origin')) :
           /\ file' = Take(Concat(origin'), n)
           /\ cut' = IF n = Len(Concat(origin')) THEN -1 ELSE n
    /\ UNCHANGED <<engine, key_dir, pos, last, hist, base, codec, calls, overlap, insts, runs>>

\* DiskStorage(file_name) up to the loop: seek to the end, tell, the size test
ScanBegin ==
    /\ engine \in {"none", "closed", "failed"}
    /\ exists' = TRUE
    /\ key_dir' = EmptyDir
    /\ IF Len(file) < 10
       THEN /\ engine' = "open"
            /\ pos' = Len(file)
            /\ last' = Outcome("open", <<>>, "return", <<>>)
       ELSE /\ engine' = "scanning"
            /\ pos' = 0
            /\ last' = Outcome("open", <<>>, "running", <<>>)
    /\ base' = Len(hist)
    /\ UNCHANGED <<file, hist, cut, codec, aux>>

\* one loop iteration; an exception ends the constructor without an object
ScanStep ==
    /\ engine = "scanning"
    /\ pos < Len(file)
    /\ \E r \in {ScanIteration(file, pos, key_dir)} :
           IF r.err = "none"
           THEN /\ key_dir' = r.key_dir
                /\ pos' = r.pos
                /\ UNCHANGED <<engine, last>>
           ELSE /\ engine' = "failed"
                /\ key_dir' = EmptyDir
                /\ pos' = 0
                /\ last' = Outcome("open", <<>>, r.err, <<>>)
    /\ UNCHANGED <<exists, file, hist, base, cut, codec, aux>>

\* the loop condition fails: the constructor returns the object
ScanEnd ==
    /\ engine = "scanning"
    /\ ~(pos < Len(file))
    /\ engine' = "open"
    /\ last' = Outcome("open", <<>>, "return", <<>>)
    /\ UNCHANGED <<exists, file, key_dir, pos, hist, base, cut, codec, aux>>

NextFiles ==
    \/ PutFile
    \/ ScanBegin
    \/ ScanStep
    \/ ScanEnd
    \/ \E k \in PieceKeys : Get(k)
    \/ Close

SpecFiles == InitFiles /\ [][NextFiles]_vars

\* the loop is scheduled until it ends: a running constructor takes its next step
SpecFilesFair == SpecFiles /\ WF_vars(ScanStep) /\ WF_vars(ScanEnd)

(***************************************************************************)
(* Two threads calling set on one engine.  A call is the four statements   *)
(* of DiskStorage.set, one step each; the threads share file_store (and    *)
(* with it the position) and key_dir, and each keeps its own local         *)
(* total_file_size_before_key_set.  whole is what the call would do if it  *)
(* ran from its first statement to its last without another thread.        *)
(***************************************************************************)
MaxCalls == 3

\* "a", "c"
ConcKeys == {<<97>>, <<99>>}

\* "b"
ConcValues == {<<98>>}

AllIdle == \A th \in Threads : calls[th].pc = "idle"

\* self.file_store.seek(0, os.SEEK_END)
SetSeek(th, key, value, timestamp) ==
    /\ engine = "open"
    /\ calls[th].pc = "idle"
    /\ Len(hist) + Cardinality({u \in Threads : calls[u].pc \in {"sought", "told"}}) < MaxCalls
    /\ pos' = Len(file)
    /\ calls' = [calls EXCEPT ![th] =
                     [pc |-> "sought", key |-> key, value |-> value,
                      timestamp |-> timestamp, offset |-> 0, at |-> pos,
                      whole |-> SetEffect(file, pos, key_dir, key, value, timestamp)]]
    /\ overlap' = (overlap \/ \E u \in Threads \ {th} : calls[u].pc # "idle")
    /\ UNCHANGED <<exists, file, engine, key_dir, last, hist, base, cut, codec, origin, insts, runs>>

\* total_file_size_before_key_set = self.file_store.tell()
SetTell(th) ==
    /\ calls[th].pc = "sought"
    /\ calls' = [calls EXCEPT ![th].pc = "told", ![th].offset = pos]
    /\ UNCHANGED <<exists, file, engine, key_dir, pos, last, hist, base, cut, codec,
                   origin, overlap, insts, runs>>

\* encoded_data = encode_kv(...); self.file_store.write(encoded_data[1])
SetWrite(th) ==
    /\ calls[th].pc = "told"
    /\ LET c == calls[th]
           encoded_data == encode_kv(c.timestamp, c.key, c.value)
       IN  /\ file' = FileWrite(file, pos, encoded_data[2])
           /\ pos' = pos + encoded_data[1]
           /\ hist' = Append(hist, [key |-> c.key, value |-> c.value, offset |-> pos,
                                    at |-> c.at])
    /\ calls' = [calls EXCEPT ![th].pc = "written"]
    /\ UNCHANGED <<exists, engine, key_dir, last, base, cut, codec, origin, overlap, insts, runs>>

\* self.key_dir[key] = total_file_size_before_key_set, and the call returns
SetStore(th) ==
    /\ calls[th].pc = "written"
    /\ key_dir' = DictSet(key_dir, calls[th].key, calls[th].offset)
    /\ last' = Outcome("set", calls[th].key, "return", <<>>)
    /\ calls' = [calls EXCEPT ![th] = IdleCall]
    /\ UNCHANGED <<exists, file, engine, pos, hist, base, cut, codec, origin, overlap, insts, runs>>

\* a get while no set is in progress
GetQuiet(key) ==
    /\ AllIdle
    /\ Get(key)

NextConc ==
    \/ Open
    \/ \E th \in Threads, k \in ConcKeys, v \in ConcValues, t \in Timestamps :
           SetSeek(th, k, v, t)
    \/ \E th \in Threads : SetTell(th)
    \/ \E th \in Threads : SetWrite(th)
    \/ \E th \in Threads : SetStore(th)
    \/ \E k \in ConcKeys : GetQuiet(k)

SpecConc == Init /\ [][NextConc]_vars

(***************************************************************************)
(* Two DiskStorage objects on one path, called one after the other.  Each  *)
(* has its own file_store (position and write buffer) and its own key_dir; *)
(* file is what the file system holds.  io.BufferedRandom keeps the bytes  *)
(* of write in its buffer and hands them to the file at the next seek or   *)
(* at close (the records here are far smaller than the buffer), at the     *)
(* place the file stood when they were written.                            *)
(***************************************************************************)
MaxInstSets == 2

\* "a", "c"
InstKeys == {<<97>>, <<99>>}

\* "1", "22"
InstValues == {<<49>>, <<50, 50>>}

\* a flush that writes the buffer at the start of the file
FlushedAtStart(f, inst) == FileWrite(f, 0, inst.pending)

\* the file after the object's buffer has been written out
Flushed(f, inst) == FileWrite(f, inst.ppos, inst.pending)

\* DiskStorage(file_name): a second object does not know of the first
InstOpen(i) ==
    /\ insts[i].engine = "none"
    /\ exists' = TRUE
    /\ LET r == InitDb(file)
       IN  insts' = [insts EXCEPT ![i] =
               IF r.err = "none"
               THEN [NoInst EXCEPT !.engine = "open", !.key_dir = r.key_dir, !.pos = r.pos,
                                   !.last = Outcome("open", <<>>, "return", <<>>)]
               ELSE [NoInst EXCEPT !.engine = "failed",
                                   !.last = Outcome("open", <<>>, r.err, <<>>)]]
    /\ UNCHANGED <<file, engine, key_dir, pos, last, hist, base, cut, codec,
                   origin, calls, overlap, runs>>

\* set through object i: the seek writes out what the last set left in the
\* buffer, tell gives the end of the file as it is then, the new record goes
\* into the buffer
InstSet(i, key, value, timestamp) ==
    /\ insts[i].engine = "open"
    /\ insts[1].sets + insts[2].sets < MaxInstSets
    /\ LET inst == insts[i]
           f == Flushed(file, inst)
           total_file_size_before_key_set == Len(f)
           encoded_data == encode_kv(timestamp, key, value)
       IN  /\ file' = f
           /\ insts' = [insts EXCEPT ![i] =
                  [inst EXCEPT !.pending = encoded_data[2],
                               !.ppos = total_file_size_before_key_set,
                               !.pos = total_file_size_before_key_set + encoded_data[1],
                               !.key_dir = DictSet(inst.key_dir, key,
                                                   total_file_size_before_key_set),
                               !.sets = inst.sets + 1,
                               !.wrote = DictSet(inst.wrote, key,
                                            [offset |-> total_file_size_before_key_set,
                                             value |-> value,
                                             bytes |-> encoded_data[2]]),
                               !.last = Outcome("set", key, "return", <<>>)]]
    /\ UNCHANGED <<exists, engine, key_dir, pos, last, hist, base, cut, codec,
                   origin, calls, overlap, runs>>

\* get through object i: nothing but the return for a key that is not in its
\* key_dir; else the seek writes out the buffer and the reads follow
InstGet(i, key) ==
    /\ insts[i].engine = "open"
    /\ LET inst == insts[i]
       IN  IF key \notin DOMAIN inst.key_dir
           THEN /\ insts' = [insts EXCEPT ![i].last = Outcome("get", key, "return", NotFound)]
                /\ file' = file
           ELSE LET f == Flushed(file, inst)
                    r == GetReadAt(f, inst.key_dir[key])
                IN  /\ file' = f
                    /\ insts' = [insts EXCEPT ![i] =
                           [inst EXCEPT !.pending = <<>>, !.ppos = 0, !.pos = r.pos,
                                        !.last = Outcome("get", key, r.out, r.ret)]]
    /\ UNCHANGED <<exists, engine, key_dir, pos, last, hist, base, cut, codec,
                   origin, calls, overlap, runs>>

\* close through object i: the buffer is written out
InstClose(i) ==
    /\ insts[i].engine = "open"
    /\ file' = Flushed(file, insts[i])
    /\ insts' = [insts EXCEPT ![i] =
           [insts[i] EXCEPT !.engine = "closed", !.pending = <<>>, !.ppos = 0,
                            !.last = Outcome("close", <<>>, "return", <<>>)]]
    /\ UNCHANGED <<exists, engine, key_dir, pos, last, hist, base, cut, codec,
                   origin, calls, overlap, runs>>

NextInst ==
    \/ \E i \in Instances : InstOpen(i)
    \/ \E i \in Instances, k \in InstKeys, v \in InstValues, t \in Timestamps :
           InstSet(i, k, v, t)
    \/ \E i \in Instances, k \in InstKeys : InstGet(i, k)
    \/ \E i \in Instances : InstClose(i)

SpecInst == Init /\ [][NextInst]_vars

(***************************************************************************)
(* Two runs of one sequence of calls, each on its own path, that differ in *)
(* the values int(time.time()) returns to set.  A call is made in both     *)
(* runs in one step; each run is a record of what the engine variables     *)
(* above hold, and a call does to it what the action of that call does.    *)
(***************************************************************************)
MaxTwinSets == 2

\* "a", "é"
TwinKeys == {<<97>>, <<233>>}

\* "b", "c"
TwinValues == {<<98>>, <<99>>}

\* DiskStorage(file_name)
DoOpen(r) ==
    LET d == InitDb(r.file)
    IN  IF d.err = "none"
        THEN [r EXCEPT !.engine = "open", !.key_dir = d.key_dir, !.pos = d.pos,
                       !.opens = Min(r.opens + 1, 2),
                       !.last = Outcome("open", <<>>, "return", <<>>)]
        ELSE [r EXCEPT !.engine = "failed", !.key_dir = EmptyDir, !.pos = 0,
                       !.opens = Min(r.opens + 1, 2),
                       !.last = Outcome("open", <<>>, d.err, <<>>)]

\* set(key, value) at a moment when int(time.time()) is timestamp
DoSet(r, key, value, timestamp) ==
    IF r.engine = "closed"
    THEN [r EXCEPT !.last = Outcome("set", key, "ValueError", <<>>)]
    ELSE IF Encodable(key) /\ Encodable(value)
    THEN LET e == SetEffect(r.file, r.pos, r.key_dir, key, value, timestamp)
         IN  [r EXCEPT !.file = e.file, !.pos = e.pos, !.key_dir = e.key_dir,
                       !.sets = r.sets + 1,
                       !.last = Outcome("set", key, "return", <<>>)]
    ELSE LET e == SetFailEffect(r.file, r.pos, r.key_dir, key)
         IN  [r EXCEPT !.file = e.file, !.pos = e.pos, !.key_dir = e.key_dir,
                       !.last = Outcome("set", key, "UnicodeEncodeError", <<>>)]

\* get(key)
DoGet(r, key) ==
    IF key \notin DOMAIN r.key_dir
    THEN [r EXCEPT !.last = Outcome("get", key, "return", NotFound)]
    ELSE IF r.engine = "closed"
    THEN [r EXCEPT !.last = Outcome("get", key, "ValueError", <<>>)]
    ELSE LET g == GetReadAt(r.file, r.key_dir[key])
         IN  [r EXCEPT !.pos = g.pos, !.last = Outcome("get", key, g.out, g.ret)]

\* close()
DoClose(r) ==
    [r EXCEPT !.engine = "closed", !.last = Outcome("close", <<>>, "return", <<>>)]

TwinOpen ==
    /\ \A n \in {1, 2} : runs[n].engine \in {"none", "closed", "failed"}
    /\ runs' = [n \in {1, 2} |-> DoOpen(runs[n])]
    /\ UNCHANGED <<exists, file, engine, key_dir, pos, last, hist, base, cut, codec,
                   origin, calls, overlap, insts>>

TwinSet(key, value, t1, t2) ==
    /\ \A n \in {1, 2} : runs[n].engine \in {"open", "closed"}
    /\ runs[1].sets < MaxTwinSets
    /\ runs' = <<DoSet(runs[1], key, value, t1), DoSet(runs[2], key, value, t2)>>
    /\ UNCHANGED <<exists, file, engine, key_dir, pos, last, hist, base, cut, codec,
                   origin, calls, overlap, insts>>

TwinGet(key) ==
    /\ \A n \in {1, 2} : runs[n].engine \in {"open", "closed"}
    /\ runs' = [n \in {1, 2} |-> DoGet(runs[n], key)]
    /\ UNCHANGED <<exists, file, engine, key_dir, pos, last, hist, base, cut, codec,
                   origin, calls, overlap, insts>>

TwinClose ==
    /\ \A n \in {1, 2} : runs[n].engine \in {"open", "closed"}
    /\ runs' = [n \in {1, 2} |-> DoClose(runs[n])]
    /\ UNCHANGED <<exists, file, engine, key_dir, pos, last, hist, base, cut, codec,
                   origin, calls, overlap, insts>>

NextTwin ==
    \/ TwinOpen
    \/ \E k \in TwinKeys, v \in TwinValues, t1 \in Timestamps, t2 \in Timestamps :
           TwinSet(k, v, t1, t2)
    \/ \E k \in TwinKeys : TwinGet(k)
    \/ TwinClose

SpecTwin == Init /\ [][NextTwin]_vars

(***************************************************************************)
(* Vocabulary of the claims                                                *)
(***************************************************************************)
\* what get(k) returns on an open engine with index kd over a file that holds f
GetResult(kd, f, k) ==
    IF k \notin DOMAIN kd THEN [out |-> "return", ret |-> NotFound]
    ELSE [out |-> GetReadAt(f, kd[k]).out, ret |-> GetReadAt(f, kd[k]).ret]

\* the set calls of k, as indices of hist: all of them, and those made
\* through the current object
SetsOf(k) == {i \in 1..Len(hist) : hist[i].key = k}

SessionSetsOf(k) == {i \in SetsOf(k) : i > base}

Latest(S) == CHOOSE i \in S : \A j \in S : j <= i

\* the value passed to the most recent set of k
LatestValue(k) == hist[Latest(SetsOf(k))].value

\* the records of f by their headers alone: the start offsets, in file order,
\* up to the first place where no complete record starts
RECURSIVE RecordOffsets(_, _)
RecordOffsets(f, p) ==
    LET h == decode_header(FileRead(f, p, HEADER_SIZE))
    IN  IF h.err # "none" \/ p + HEADER_SIZE + h.key_size + h.value_size > Len(f) THEN <<>>
        ELSE <<p>> \o RecordOffsets(f, p + HEADER_SIZE + h.key_size + h.value_size)

\* C1 (as claimed): on one open engine, get(k) returns the value passed to the
\* most recent set(k, v), and the file holds one physical record per set made
\* (as many complete records as set calls).
C1_LastWriteWins ==
    /\ (engine = "open" /\ last.op = "get" /\ SessionSetsOf(last.key) # {})
           => (last.out = "return" /\ last.ret = LatestValue(last.key))
    /\ Len(RecordOffsets(file, 0)) = Len(hist)

\* C2 (as claimed): a close followed by a new open of the same path succeeds,
\* rebuilds the same index (same keys, same offsets) and get returns for every
\* key what it returned before the close.
C2_ReopenIdempotent ==
    [][(engine = "closed" /\ last'.op = "open")
           => (/\ engine' = "open"
               /\ key_dir' = key_dir
               /\ \A k \in Keys : GetResult(key_dir', file', k) = GetResult(key_dir, file, k))]_vars

\* C3 (as claimed): get(k) of a key that was never set returns NotFound and
\* raises nothing, on an empty store and on one that holds other keys.
C3_MissingKey ==
    (engine = "open" /\ last.op = "get" /\ SetsOf(last.key) = {})
        => (last.out = "return" /\ last.ret = NotFound)

\* C4 (as claimed): the result of get(k) for a key that is present (set
\* through this engine, with any value set accepts, the empty text included)
\* differs from the result of get for a key that was never set.
C4_NotFoundDistinct ==
    (engine = "open" /\ last.op = "get" /\ SessionSetsOf(last.key) # {})
        => <<last.out, last.ret>> # <<"return", NotFound>>

\* C5 (as claimed): once close has been called, every later set, get and close
\* on that engine fails explicitly (raises) and leaves the file as it was.
C5_ClosedEngineFails ==
    [][(engine = "closed" /\ last'.op \in {"set", "get", "close"})
           => (last'.out # "return" /\ file' = file)]_vars

\* C6 (as claimed): open of a valid log truncated strictly inside a record
\* fails (raises) and yields no engine and no index.
C6_TruncatedOpenFails ==
    (cut # -1 /\ last.op = "open") => (engine = "failed" /\ key_dir = EmptyDir)

\* the length of the record at offset p of f, from its header: 12 + key_size + value_size
RecordLength(f, p) ==
    LET h == decode_header(FileRead(f, p, HEADER_SIZE))
    IN  HEADER_SIZE + h.key_size + h.value_size

RECURSIVE SumLengths(_, _)
SumLengths(f, offsets) ==
    IF offsets = <<>> THEN 0
    ELSE RecordLength(f, Head(offsets)) + SumLengths(f, Tail(offsets))

\* C7 (as claimed): the offset set(k, v) stores for k is the file length just
\* before the set, which is the sum of 12 + key_size + value_size over the
\* records appended earlier; and every other key set earlier through this
\* engine is still readable with its own value after the set.
C7_OffsetCorrect ==
    [][(engine = "open" /\ hist' # hist)
           => (/\ key_dir'[last'.key] = Len(file)
               /\ Len(file) = SumLengths(file, RecordOffsets(file, 0))
               /\ \A k \in Keys \ {last'.key} :
                      SessionSetsOf(k) # {}
                          => GetResult(key_dir', file', k)
                                 = [out |-> "return", ret |-> LatestValue(k)])]_vars

\* C8 (as claimed): decode_kv of the bytes returned by encode_kv gives back
\* exactly (timestamp, key, value), for every text key and value, multi-byte
\* characters and empty texts included.
C8_CodecRoundTrip ==
    codec.pc = "decoded"
        => codec.decoded = [err |-> "none", timestamp |-> codec.timestamp,
                            key |-> codec.key, value |-> codec.value]

\* C9 (as claimed): encode_kv returns header || key_bytes || value_bytes in
\* full, the header's key_size and value_size are the byte lengths of the
\* encoded key and value, and the returned length is
\* 12 + len(key_bytes) + len(value_bytes).
C9_EncodedLayout ==
    codec.pc \in {"encoded", "decoded"}
        => LET key_bytes == StrEncode(codec.key)
               value_bytes == StrEncode(codec.value)
               h == decode_header(Take(codec.encoded[2], HEADER_SIZE))
           IN  /\ h.err = "none"
               /\ h.key_size = Len(key_bytes)
               /\ h.value_size = Len(value_bytes)
               /\ Drop(codec.encoded[2], HEADER_SIZE) = key_bytes \o value_bytes
               /\ codec.encoded[1] = 12 + Len(key_bytes) + Len(value_bytes)

\* C10 (as claimed): on an open engine, every index entry key_dir[k] is the
\* start offset of a complete record of the file whose key is k and whose
\* value is the value of the most recent set of k, and it is the offset of
\* that most recent set (never of an older record of k).
C10_IndexInvariant ==
    engine = "open"
        => \A k \in DOMAIN key_dir :
               LET o == key_dir[k]
                   d == decode_kv(FileRead(file, o, RecordLength(file, o)))
               IN  /\ decode_header(FileRead(file, o, HEADER_SIZE)).err = "none"
                   /\ o + RecordLength(file, o) <= Len(file)
                   /\ d.err = "none"
                   /\ d.key = k
                   /\ SetsOf(k) # {}
                   /\ d.value = LatestValue(k)
                   /\ o = hist[Latest(SetsOf(k))].offset

\* C11: the log is append-only.  Every set that returns on the open engine
\* makes the file longer by exactly the length encode_kv returns for its
\* record (so strictly longer), leaves every byte below the previous end of
\* file as it was, wherever file_store stood before the call, and hands the
\* index an offset that is not below any offset handed out before.
C11_AppendOnly ==
    [][(engine = "open" /\ hist' # hist)
           => LET n == Len(hist')
                  h == hist'[n]
              IN  /\ \E t \in Timestamps :
                         Len(file') = Len(file) + encode_kv(t, h.key, h.value)[1]
                  /\ Len(file') > Len(file)
                  /\ Take(file', Len(file)) = file
                  /\ key_dir'[h.key] = h.offset
                  /\ \A i \in 1..(n - 1) : hist'[i].offset <= h.offset]_vars

\* C11 witness: a set was made while file_store stood before the end of the
\* file (a get of an older record had moved it).
C11_SetAfterGetMovedPosition ==
    /\ Len(hist) >= 1
    /\ last.op = "set"
    /\ hist[Len(hist)].at < hist[Len(hist)].offset

\* C12 (as claimed): for every file of 0 to 11 bytes found at the path, open
\* starts no scan, raises nothing and returns an engine with an empty index.
C12_ShortFileOpens ==
    (Len(file) < HEADER_SIZE /\ last.op = "open")
        => (engine = "open" /\ last.out = "return" /\ key_dir = EmptyDir)

\* the file is a run of records in the documented layout, uncut
WellFormedFile == cut = -1 /\ \A i \in 1..Len(origin) : origin[i].wf

\* where piece i of the file starts
RECURSIVE PieceStart(_)
PieceStart(i) == IF i = 1 THEN 0 ELSE PieceStart(i - 1) + Len(origin[i - 1].bytes)

\* the index of the first n records: each key that occurs among them, at the
\* start of the last of them that carries it
IndexOfFirst(n) ==
    [k \in {origin[i].key : i \in 1..n} |->
        PieceStart(Latest({i \in 1..n : origin[i].key = k}))]

\* C13: on a file that is a run of well-formed records the scan raises
\* nothing, stands at the start of a record (or at the end of the file) before
\* every iteration, having indexed exactly the records before that place, each
\* key at the start of the last of them that carries it; it returns the index
\* of all the records of the file.
C13_BootstrapScan ==
    WellFormedFile
        => /\ engine # "failed"
           /\ engine = "scanning"
                  => \E n \in 0..Len(origin) :
                         /\ pos = PieceStart(n + 1)
                         /\ key_dir = IndexOfFirst(n)
           /\ (engine \in {"open", "closed"} /\ hist = <<>>)
                  => key_dir = IndexOfFirst(Len(origin))

\* C13 witness: a scan has returned the index of a file of two well-formed
\* records that carry the same key.
C13_ScannedSameKeyTwice ==
    /\ WellFormedFile
    /\ engine = "open"
    /\ last.op = "open"
    /\ Len(origin) >= 2
    /\ origin[1].key = origin[2].key

\* C17: the scan of open runs to completion on every file: a running scan
\* ends, with an engine or with an exception, and no iteration leaves the
\* cursor where it was or moves it back.
C17_ScanTerminates ==
    /\ [](engine = "scanning" => <>(engine \in {"open", "failed"}))
    /\ [][(engine = "scanning" /\ engine' = "scanning") => pos' > pos]_vars

\* C17 witness: the scan has ended on a file whose first header declares
\* sizes of zero and whose second header declares more bytes than follow.
C17_ScannedZeroAndOversized ==
    /\ cut = -1
    /\ Len(origin) >= 2
    /\ origin[1] = ZeroRecord
    /\ origin[2] = Oversized
    /\ last.op = "open"
    /\ engine = "failed"

\* C18 (as claimed): while the engine is open the whole file parses from
\* offset 0 as a run of complete records with nothing left over, so that a
\* close followed by an open of the same path succeeds.
C18_FileAlwaysParses ==
    engine = "open" => ScanLoop(file, 0, EmptyDir).err = "none"

\* C19: get is read-only: a call of get, for a key in the index or not, on an
\* open or a closed engine, leaves the file, the index and the engine as they
\* were; whatever position it leaves the handle at, every later get returns
\* what it would have returned and every later set does what it would have done.
C19_GetReadOnly ==
    [][(last'.op = "get")
           => /\ file' = file
              /\ key_dir' = key_dir
              /\ engine' = engine
              /\ exists' = exists
              /\ \A k \in LogKeys :
                     GetResult(key_dir', file', k) = GetResult(key_dir, file, k)
              /\ \A k \in LogKeys, v \in LogValues, t \in Timestamps :
                     SetEffect(file', pos', key_dir', k, v, t)
                         = SetEffect(file, pos, key_dir, k, v, t)]_vars

\* C19 witness: a get has returned the value of the first of two records and
\* has left the handle before the end of the file.
C19_GetLeftHandleInside ==
    /\ engine = "open"
    /\ last.op = "get"
    /\ last.out = "return"
    /\ last.key \in DOMAIN key_dir
    /\ Len(hist) >= 2
    /\ pos < Len(file)

\* C20: a set whose key or value cannot be encoded raises to the caller and
\* writes nothing: the file and the index are as before, the engine stays
\* open, and every later get and set gives what it would have given without
\* the failed call; a set that returns has stored encodable texts only.
C20_FailedSetNoEffect ==
    [][(engine = "open" /\ last'.op = "set")
           => /\ engine' = "open"
              /\ \/ /\ hist' # hist
                    /\ last'.out = "return"
                    /\ Encodable(hist'[Len(hist')].key)
                    /\ Encodable(hist'[Len(hist')].value)
                 \/ /\ hist' = hist
                    /\ last'.out = "UnicodeEncodeError"
                    /\ file' = file
                    /\ key_dir' = key_dir
                    /\ \A k \in EncKeys :
                           GetResult(key_dir', file', k) = GetResult(key_dir, file, k)
                    /\ \A k \in EncKeys, v \in EncValues, t \in Timestamps :
                           (Encodable(k) /\ Encodable(v))
                               => SetEffect(file', pos', key_dir', k, v, t)
                                      = SetEffect(file, pos, key_dir, k, v, t)]_vars

\* C20 witness: a set with a text that cannot be encoded has raised on an open
\* engine that holds a record.
C20_SetRaisedOnOpenEngine ==
    /\ engine = "open"
    /\ last.op = "set"
    /\ last.out = "UnicodeEncodeError"
    /\ DOMAIN key_dir # {}
    /\ Len(hist) >= 1

\* every key that was set is in the index, at the offset where its latest
\* record was written, and the index holds no other key
IndexInLockstep ==
    /\ DOMAIN key_dir = {hist[i].key : i \in 1..Len(hist)}
    /\ \A k \in DOMAIN key_dir : key_dir[k] = hist[Latest(SetsOf(k))].offset

\* C14: when every set call on the shared engine runs to completion before the
\* next one starts, the index entry of every key is the start of that key's
\* latest record whenever no call is in progress, and each call does to the
\* file, the position and the index what set as a whole does.
C14_SerializedSetsKeepIndex ==
    /\ []((~overlap /\ AllIdle /\ engine = "open") => IndexInLockstep)
    /\ [][\A th \in Threads :
              (~overlap' /\ calls[th].pc = "written" /\ calls'[th].pc = "idle")
                  => /\ file' = calls[th].whole.file
                     /\ pos' = calls[th].whole.pos
                     /\ key_dir' = calls[th].whole.key_dir]_vars

\* C14 witness: two set calls were interleaved between tell and write and
\* have returned, and the index entry of a key is not the start of that key's
\* latest record.
C14_InterleavedSetsBreakIndex ==
    /\ overlap
    /\ AllIdle
    /\ engine = "open"
    /\ \E k \in DOMAIN key_dir : key_dir[k] # hist[Latest(SetsOf(k))].offset

\* what object i holds, by its own reads, at the offset its index gives for k
InstBytesAt(i, k) ==
    FileRead(Flushed(file, insts[i]), insts[i].key_dir[k], Len(insts[i].wrote[k].bytes))

\* an index entry of object i does not point at the record i wrote for the key
InstCorrupt(i) ==
    \E k \in DOMAIN insts[i].wrote :
        \/ k \notin DOMAIN insts[i].key_dir
        \/ insts[i].key_dir[k] # insts[i].wrote[k].offset
        \/ InstBytesAt(i, k) # insts[i].wrote[k].bytes

\* C15: two objects on one path are isolated only as long as set is called
\* through at most one of them: then every index entry of an object points at
\* the record that object wrote for the key, as the object reads the file.
C15_IsolatedUnlessBothSet ==
    (\E i \in Instances : \A j \in Instances \ {i} : insts[j].sets = 0)
        => \A i \in Instances : ~InstCorrupt(i)

\* C15 witness: set was called through both objects; an index entry of one
\* of them points at bytes that are not its key's record, a get through it has
\* returned another value than the one it set for the key (its record was
\* overwritten through the other object), and a key set through one object is
\* not in the index of the other.
C15_LostUpdateAndCorruptIndex ==
    /\ \A i \in Instances : insts[i].sets > 0
    /\ \E i \in Instances :
           /\ InstCorrupt(i)
           /\ insts[i].last.op = "get"
           /\ insts[i].last.out = "return"
           /\ insts[i].last.key \in DOMAIN insts[i].wrote
           /\ insts[i].last.ret # insts[i].wrote[insts[i].last.key].value
    /\ \E i \in Instances, j \in Instances :
           /\ i # j
           /\ \E k \in DOMAIN insts[i].wrote : k \notin DOMAIN insts[j].key_dir

\* C16: two runs of the same calls that differ only in the timestamps of
\* their records agree on everything but the timestamp bytes of the file: the
\* engine's state, the index (keys and offsets), the position, the outcome and
\* result of every call, the file's length, and what get returns for every key.
C16_TimestampOpaque ==
    /\ runs[1].engine = runs[2].engine
    /\ runs[1].key_dir = runs[2].key_dir
    /\ runs[1].pos = runs[2].pos
    /\ runs[1].last = runs[2].last
    /\ Len(runs[1].file) = Len(runs[2].file)
    /\ \A k \in TwinKeys :
           GetResult(runs[1].key_dir, runs[1].file, k)
               = GetResult(runs[2].key_dir, runs[2].file, k)

\* C16 witness: the runs hold two records each, with different timestamps;
\* they were closed and opened again, and a get has returned a value.
C16_ReopenedWithOtherTimestamps ==
    /\ runs[1].file # runs[2].file
    /\ runs[1].sets = 2
    /\ runs[1].opens = 2
    /\ runs[1].engine = "open"
    /\ Cardinality(DOMAIN runs[1].key_dir) = 1
    /\ runs[1].last.op = "get"
    /\ runs[1].last.out = "return"
    /\ runs[1].last.ret # NotFound

====
